---- MODULE Spec2Model ----
(***************************************************************************)
(* Webhook ingestion and query service (main.py, storage.py, models.py,    *)
(* metrics.py, config.py) as a state machine.                              *)
(*                                                                         *)
(* Strings are tuples of characters, so that len(), startswith(),          *)
(* endswith(), isdigit() and replace() are computed and not assumed.       *)
(* Timestamps are tuples of chunks (a date-time chunk and a zone suffix).  *)
(* Requests are served by a fixed set of workers; a worker takes one       *)
(* request at a time and runs its handler one store statement per step,    *)
(* so statements of different requests interleave.                         *)
(***************************************************************************)
EXTENDS Integers, Sequences, FiniteSets, Bags, TLC

VARIABLES
    process,                 \* the process: its environment and how far it got
    settings,                \* config.settings: [webhook_secret]
    store,                   \* the messages table: sequence of rows, in rowid order
    clock,                   \* datetime.utcnow() as a logical clock (created_at)
    webhook_requests_total,  \* metrics.webhook_requests_total: result -> count
    http_requests_total,     \* metrics.http_requests_total: <<path, status>> -> count
    log,                     \* records handed to logger.handle: a bag
    inflight,                \* worker -> the request it is serving, or Idle
    history,                 \* finished requests, in order of completion
    pool,                    \* the inputs clients may send: [webhook, messages]
    budget                   \* how many more requests will arrive

vars == <<process, settings, store, clock, webhook_requests_total, http_requests_total,
          log, inflight, history, pool, budget>>

(***************************************************************************)
(* Bounds                                                                  *)
(***************************************************************************)
MaxReqs == 2        \* requests per behaviour, concurrent specification
MaxWideReqs == 1    \* requests per behaviour, wide-input specification
MaxQueryReqs == 1   \* requests per behaviour, query specification
NumWorkers == 2     \* requests served at the same time

Workers == 1..NumWorkers

(***************************************************************************)
(* Strings                                                                 *)
(***************************************************************************)
None == <<"<None>">>          \* Python None / JSON null / absent header
Missing == <<"<missing>">>    \* a key a dict does not have

AsciiDigits == {"0", "1", "2"}
\* characters c outside 0-9 with c.isdigit() true (U+00B2 SUPERSCRIPT TWO)
OtherDigits == {"sup2"}

\* str.isdigit(): non-empty and every character is a digit character
IsDigit(s) ==
    /\ Len(s) >= 1
    /\ \A i \in 1..Len(s) : s[i] \in AsciiDigits \cup OtherDigits

\* v.startswith(p), p one character
StartsWith(v, p) == Len(v) >= 1 /\ v[1] = p

\* v.endswith(p), p one chunk
EndsWith(v, p) == Len(v) >= 1 /\ v[Len(v)] = p

\* v.replace(a, b): every occurrence
Replace(v, a, b) == [i \in 1..Len(v) |-> IF v[i] = a THEN b ELSE v[i]]

Repeat(c, n) == [i \in 1..n |-> c]

(***************************************************************************)
(* WebhookMessage (pydantic model)                                         *)
(***************************************************************************)
MaxTextLength == 4096

\* the date-time chunks datetime.fromisoformat accepts
DateTimes == {"2025-01-15T10:00:00", "2025-01-15T10:01:00"}
Offsets == {"+00:00"}

\* datetime.fromisoformat(s) does not raise
FromIsoFormatOk(s) ==
    \/ Len(s) = 1 /\ s[1] \in DateTimes
    \/ Len(s) = 2 /\ s[1] \in DateTimes /\ s[2] \in Offsets

\* validate_msisdn: TRUE when it returns v, FALSE when it raises ValueError
validate_msisdn(v) ==
    IF ~StartsWith(v, "+") THEN FALSE
    ELSE IF ~IsDigit(SubSeq(v, 2, Len(v))) THEN FALSE
    ELSE TRUE

\* validate_timestamp: TRUE when it returns v, FALSE when it raises ValueError
validate_timestamp(v) ==
    IF ~EndsWith(v, "Z") THEN FALSE
    ELSE FromIsoFormatOk(Replace(v, "Z", "+00:00"))

\* d.get(k): the value of a key, Missing when the dict has no such key
Get(d, k) == IF k \in DOMAIN d THEN d[k] ELSE Missing

\* a required str field: present and a string
IsStr(v) == v # Missing /\ v # None

\* The fields pydantic rejects when WebhookMessage(**d) is built. Only the
\* declared field names are read: keys the model does not declare are ignored.
WebhookMessageErrors(d) ==
    {f \in {"message_id", "from_msisdn", "to_msisdn", "ts", "text"} :
        LET v == Get(d, f) IN
        CASE f = "message_id"  -> ~(IsStr(v) /\ Len(v) >= 1)
          [] f = "from_msisdn" -> ~(IsStr(v) /\ validate_msisdn(v))
          [] f = "to_msisdn"   -> ~(IsStr(v) /\ validate_msisdn(v))
          [] f = "ts"          -> ~(IsStr(v) /\ validate_timestamp(v))
          [] f = "text"        -> ~(v = Missing \/ v = None \/ Len(v) <= MaxTextLength)}

\* the model instance WebhookMessage(**d) of a dict it accepts
WebhookMessage(d) ==
    [message_id  |-> d["message_id"],
     from_msisdn |-> d["from_msisdn"],
     to_msisdn   |-> d["to_msisdn"],
     ts          |-> d["ts"],
     text        |-> IF Get(d, "text") = Missing THEN None ELSE d["text"]]

(***************************************************************************)
(* Request bodies and signatures                                           *)
(***************************************************************************)
\* A body is the bytes on the wire, given by what decoding and json.loads make
\* of them: kind "not_utf8" (decode raises UnicodeDecodeError), "not_json"
\* (json.loads raises JSONDecodeError), "array" / "null" (JSON that is no
\* object) or "object" with the parsed dict obj.
NonObject(k) == [kind |-> k, obj |-> <<>>]
Object(d) == [kind |-> "object", obj |-> d]

\* exception classes that are ValueError or derive from it
ValueErrors == {"ValueError", "UnicodeDecodeError", "JSONDecodeError", "ValidationError"}

\* main.py 239-240: what json.loads(body_bytes.decode("utf-8")) followed by
\* WebhookMessage(**body_dict) raises; "none" when a message is built
ParseRaises(body) ==
    CASE body.kind = "not_utf8" -> "UnicodeDecodeError"
      [] body.kind = "not_json" -> "JSONDecodeError"
      [] body.kind = "object"   ->
            IF WebhookMessageErrors(body.obj) = {} THEN "none" ELSE "ValidationError"
      [] OTHER                  -> "TypeError"   \* ** applied to a non-mapping

\* main.py 241: except (json.JSONDecodeError, ValueError)
ParseCaught(exc) == exc \in {"JSONDecodeError"} \cup ValueErrors

\* A signature header value: absent (None), "" (empty), a hex digest in lower
\* case ("hex") or upper case ("HEX"), some other ASCII text ("text"), or text
\* with a non-ASCII character ("nonascii"). mac identifies what was signed.
Sig(k, m) == [kind |-> k, mac |-> m]
NoSig == Sig("absent", <<>>)

\* hmac.new(secret.encode(), body_bytes, hashlib.sha256).hexdigest()
HexDigest(secret, body) == Sig("hex", <<secret, body>>)

\* `not x_signature`
SigFalsy(sig) == sig.kind \in {"absent", "empty"}

\* verify_signature: "True" / "False", or the exception it raises
IsAscii(sig) == sig.kind # "nonascii"

verify_signature(secret, body, signature) ==
    IF secret = None THEN "AttributeError"            \* None.encode()
    ELSE LET expected == HexDigest(secret, body) IN
         IF ~IsAscii(signature) THEN "TypeError"      \* hmac.compare_digest
         ELSE IF expected = signature THEN "True" ELSE "False"

(***************************************************************************)
(* Storage                                                                 *)
(***************************************************************************)
\* every character and chunk, in the order of its UTF-8 bytes
TokenOrder ==
    <<"%", "+", "+00:00", "0", "1", "2",
      "2025-01-15T10:00:00", "2025-01-15T10:01:00",
      "3", "H", "Z", "_", "a", "h", "i", "m", "not-a-date", "sup2">>

Rank(c) == CHOOSE i \in 1..Len(TokenOrder) : TokenOrder[i] = c

Min(a, b) == IF a <= b THEN a ELSE b

\* a < b for TEXT values under the BINARY collation
LexLess(a, b) ==
    \E i \in 1..(Min(Len(a), Len(b)) + 1) :
        /\ \A j \in 1..(i - 1) : a[j] = b[j]
        /\ \/ i > Len(a) /\ i <= Len(b)
           \/ i <= Len(a) /\ i <= Len(b) /\ Rank(a[i]) < Rank(b[i])

LexLeq(a, b) == a = b \/ LexLess(a, b)

\* SQL LOWER(): ASCII letters only
LowerChar(c) == IF c = "H" THEN "h" ELSE c
Lower(s) == [i \in 1..Len(s) |-> LowerChar(s[i])]

\* SQL LIKE: % matches any run of characters, _ any one character, and
\* letters match without regard to ASCII case
RECURSIVE Like(_, _)
Like(text, pat) ==
    IF pat = <<>> THEN text = <<>>
    ELSE IF Head(pat) = "%" THEN
        \/ Like(text, Tail(pat))
        \/ text # <<>> /\ Like(Tail(text), pat)
    ELSE /\ text # <<>>
         /\ Head(pat) = "_" \/ LowerChar(Head(pat)) = LowerChar(Head(text))
         /\ Like(Tail(text), Tail(pat))

\* Python truthiness of an Optional[str]
Truthy(s) == s # None /\ s # <<>>

\* storage.py 73-90: the WHERE clause applied to one row
Where(row, from_msisdn, since, q) ==
    /\ Truthy(from_msisdn) => row.from_msisdn = from_msisdn
    /\ Truthy(since) => LexLeq(since, row.ts)
    /\ Truthy(q) => /\ row.text # None
                    /\ Like(Lower(row.text), Lower(<<"%">> \o q \o <<"%">>))

\* the rows of a table that satisfy the WHERE clause, in table order
Select(table, from_msisdn, since, q) ==
    SelectSeq(table, LAMBDA row : Where(row, from_msisdn, since, q))

\* ORDER BY ts ASC, message_id ASC
RowLess(a, b) ==
    \/ LexLess(a.ts, b.ts)
    \/ a.ts = b.ts /\ LexLess(a.message_id, b.message_id)

\* no ORDER BY: the rows come in table order
OrderBy_TableOrder(rows) == rows

OrderBy(rows) ==
    LET n == Len(rows)
        pos == SubSeq([i \in 1..n |-> 1 + Cardinality({j \in 1..n :
                        \/ RowLess(rows[j], rows[i])
                        \/ ~RowLess(rows[i], rows[j]) /\ j < i})], 1, n)
    IN [k \in 1..n |-> rows[CHOOSE i \in 1..n : pos[i] = k]]

\* LIMIT ? alone: every page starts at the first row
LimitOffset_NoOffset(rows, limit, offset) ==
    SubSeq(rows, 1, Min(limit, Len(rows)))

\* LIMIT ? OFFSET ?
LimitOffset(rows, limit, offset) ==
    SubSeq(rows, offset + 1, Min(offset + limit, Len(rows)))

\* storage.py 108-117: the dict returned for a row
RowDict(row) ==
    [message_id |-> row.message_id, from |-> row.from_msisdn,
     to |-> row.to_msisdn, ts |-> row.ts, text |-> row.text]

\* storage.py 93-95: SELECT COUNT(*) ... WHERE
CountQuery(table, from_msisdn, since, q) == Len(Select(table, from_msisdn, since, q))

\* storage.py 98-117: SELECT ... WHERE ... ORDER BY ... LIMIT ? OFFSET ?
PageQuery(table, limit, offset, from_msisdn, since, q) ==
    LET rows == LimitOffset(OrderBy(Select(table, from_msisdn, since, q)), limit, offset)
    IN [i \in 1..Len(rows) |-> RowDict(rows[i])]

\* a table without the primary key on message_id
IntegrityError_NoPrimaryKey(table, row) ==
    row.from_msisdn = None \/ row.to_msisdn = None \/ row.ts = None

\* models.init_db: the primary key (a TEXT primary key column accepts NULL,
\* and NULLs do not collide) and the NOT NULL columns (created_at is computed
\* by insert_message and is never NULL)
IntegrityError(table, row) ==
    \/ /\ row.message_id # None
       /\ \E i \in 1..Len(table) : table[i].message_id = row.message_id
    \/ row.from_msisdn = None \/ row.to_msisdn = None \/ row.ts = None

\* INSERT OR REPLACE: a row with the same message_id is overwritten
insert_message_Replace(table, message, created_at) ==
    LET row == [message_id |-> message.message_id, from_msisdn |-> message.from_msisdn,
                to_msisdn |-> message.to_msisdn, ts |-> message.ts,
                text |-> message.text, created_at |-> created_at]
    IN IF \E i \in 1..Len(table) : table[i].message_id = row.message_id
       THEN [table |-> [i \in 1..Len(table) |->
                          IF table[i].message_id = row.message_id THEN row ELSE table[i]],
             inserted |-> FALSE]
       ELSE [table |-> Append(table, row), inserted |-> TRUE]

\* storage.insert_message: the table afterwards and the value returned
insert_message(table, message, created_at) ==
    LET row == [message_id |-> message.message_id, from_msisdn |-> message.from_msisdn,
                to_msisdn |-> message.to_msisdn, ts |-> message.ts,
                text |-> message.text, created_at |-> created_at]
    IN IF IntegrityError(table, row)
       THEN [table |-> table, inserted |-> FALSE]
       ELSE [table |-> Append(table, row), inserted |-> TRUE]

\* what a store can do to an operation: nothing, refuse the connection
\* (sqlite3.connect raises OperationalError), or fail the statement the
\* operation executes next (cursor.execute raises OperationalError)
Faults == {"none", "connect", "execute"}

\* the statements of one operation run on a connection that is open
StatementFaults == {"none", "execute"}

\* every exception of the INSERT is taken for a duplicate
ExceptIntegrityError_Any(exc) == TRUE

\* storage.py 51: except sqlite3.IntegrityError
ExceptIntegrityError(exc) == exc = "IntegrityError"

\* storage.py 29-56: Storage.insert_message on a store that may fault. The
\* connection is opened outside the try block; inside it, finally closes the
\* connection on every path. returns is "True", "False" or the exception
\* that leaves the method; open counts the connections left open.
Storage_insert_message(table, message, created_at, fault) ==
    IF fault = "connect"
    THEN [table |-> table, returns |-> "OperationalError", open |-> 0]
    ELSE IF fault = "execute"
    THEN [table |-> table,
          returns |-> IF ExceptIntegrityError("OperationalError") THEN "False"
                      ELSE "OperationalError",
          open |-> 0]
    ELSE LET res == insert_message(table, message, created_at)
         IN [table |-> res.table,
             returns |-> IF res.inserted THEN "True"
                         ELSE IF ExceptIntegrityError("IntegrityError") THEN "False"
                         ELSE "IntegrityError",
             open |-> 0]

\* storage.get_stats, one statement each
StatsTotalQuery(table) == Len(table)

Senders(table) == {table[i].from_msisdn : i \in 1..Len(table)}

StatsSendersQuery(table) == Cardinality(Senders(table))

SenderCount(table, sender) ==
    Cardinality({i \in 1..Len(table) : table[i].from_msisdn = sender})

TopLimit == 10

\* GROUP BY from_msisdn ORDER BY count DESC LIMIT 10: the results the
\* statement may return (the order among equal counts is not determined)
\* GROUP BY from_msisdn with COUNT(*)
Groups(table) == {[from |-> s, count |-> SenderCount(table, s)] : s \in Senders(table)}

\* the first k of the groups in an order of non-increasing count
RECURSIVE TopOrders(_, _)
TopOrders(groups, k) ==
    IF k = 0 \/ groups = {} THEN {<<>>}
    ELSE LET most == {g \in groups : \A h \in groups : g.count >= h.count}
         IN UNION {{<<g>> \o rest : rest \in TopOrders(groups \ {g}, k - 1)} : g \in most}

\* the statement without LIMIT: every group
StatsTopQuery_NoLimit(table) == TopOrders(Groups(table), Cardinality(Groups(table)))

StatsTopQuery(table) == TopOrders(Groups(table), TopLimit)

\* the ts of the row inserted first
StatsFirstQuery_FirstRow(table) == IF table = <<>> THEN None ELSE table[1].ts

\* SELECT MIN(ts) / SELECT MAX(ts); None (NULL) on an empty table
StatsFirstQuery(table) ==
    IF table = <<>> THEN None
    ELSE LET i == CHOOSE i \in 1..Len(table) :
                    \A j \in 1..Len(table) : LexLeq(table[i].ts, table[j].ts)
         IN table[i].ts

StatsLastQuery(table) ==
    IF table = <<>> THEN None
    ELSE LET i == CHOOSE i \in 1..Len(table) :
                    \A j \in 1..Len(table) : LexLeq(table[j].ts, table[i].ts)
         IN table[i].ts

\* storage.py 175-185: Storage.check_health on a store that may fault. Every
\* exception is caught and turned into False; close() is reached only when
\* SELECT 1 succeeded.
check_health(fault) ==
    IF fault = "connect" THEN [returns |-> FALSE, open |-> 0]
    ELSE IF fault = "execute" THEN [returns |-> FALSE, open |-> 1]
    ELSE [returns |-> TRUE, open |-> 0]

(***************************************************************************)
(* Inputs                                                                  *)
(***************************************************************************)
SECRET == <<"k", "1">>          \* the shared secret the senders sign with
OTHER_SECRET == <<"k", "2">>

ID_0 == <<"m", "0">>
ID_1 == <<"m", "1">>
ID_2 == <<"m", "2">>
PHONE_1 == <<"+", "1">>
PHONE_2 == <<"+", "2">>
TS_1 == <<"2025-01-15T10:00:00", "Z">>
TS_2 == <<"2025-01-15T10:01:00", "Z">>
HI == <<"H", "i">>

\* a JSON object under the field names of WebhookMessage
Msg(id, from, to, ts, text) ==
    [message_id |-> id, from_msisdn |-> from, to_msisdn |-> to, ts |-> ts, text |-> text]

\* a JSON object under the keys the tests and the listing use: from, to
WireMsg(id, from, to, ts, text) ==
    [message_id |-> id, from |-> from, to |-> to, ts |-> ts, text |-> text]

Signed(body) == [body |-> body, sig |-> HexDigest(SECRET, body)]

M1a == Object(Msg(ID_1, PHONE_1, PHONE_2, TS_2, HI))
M1b == Object(Msg(ID_1, PHONE_2, PHONE_1, TS_1, None))
M2 == Object(Msg(ID_2, PHONE_1, PHONE_2, TS_1, HI))
EmptyId == Object(Msg(<<>>, PHONE_1, PHONE_2, TS_1, HI))
M0 == Object(Msg(ID_0, PHONE_1, PHONE_2, TS_1, <<"a", "_", "h">>))
M3 == Object(Msg(<<"m", "3">>, <<"+", "0">>, PHONE_2, TS_1, None))

\* the webhook inputs of the concurrent specification
SmallPool ==
    {Signed(M1a), Signed(M1b), Signed(M2), Signed(EmptyId),
     Signed(NonObject("array")), [body |-> M1a, sig |-> NoSig]}

\* objects that break one field constraint each, or lack a field
InvalidObjects ==
    {EmptyId.obj,
     Msg(ID_1, <<"1", "2">>, PHONE_2, TS_1, HI),            \* no +
     Msg(ID_1, <<"+">>, PHONE_2, TS_1, HI),                 \* + alone
     Msg(ID_1, <<"+", "1", "a">>, PHONE_2, TS_1, HI),       \* a letter
     Msg(ID_1, <<"+", "sup2">>, PHONE_2, TS_1, HI),         \* a digit outside 0-9
     Msg(ID_1, PHONE_1, <<"2">>, TS_1, HI),
     Msg(ID_1, PHONE_1, PHONE_2, <<"2025-01-15T10:00:00", "+00:00">>, HI),
     Msg(ID_1, PHONE_1, PHONE_2, <<"2025-01-15T10:00:00">>, HI),
     Msg(ID_1, PHONE_1, PHONE_2, <<"not-a-date", "Z">>, HI),
     Msg(ID_1, PHONE_1, PHONE_2, <<"Z">>, HI),
     Msg(ID_1, PHONE_1, PHONE_2, TS_1, Repeat("a", MaxTextLength + 1)),
     [message_id |-> ID_1, from_msisdn |-> PHONE_1, to_msisdn |-> PHONE_2],
     [from_msisdn |-> PHONE_1, to_msisdn |-> PHONE_2, ts |-> TS_1],
     Msg(None, PHONE_1, PHONE_2, TS_1, HI),
     WireMsg(ID_1, PHONE_1, PHONE_2, TS_1, HI)}

ValidObjects ==
    {M1a.obj, M1b.obj,
     Msg(ID_1, PHONE_1, PHONE_2, TS_1, Repeat("a", MaxTextLength)),
     [message_id |-> ID_2, from_msisdn |-> PHONE_1, to_msisdn |-> PHONE_2, ts |-> TS_1]}

WideBodies ==
    {Object(d) : d \in ValidObjects \cup InvalidObjects}
    \cup {NonObject("not_utf8"), NonObject("not_json"), NonObject("array"), NonObject("null")}

\* the signatures a sender may attach to a body
Signatures(body) ==
    {HexDigest(SECRET, body), NoSig, Sig("empty", <<>>), Sig("text", <<>>),
     Sig("nonascii", <<>>), Sig("HEX", <<SECRET, body>>),
     HexDigest(OTHER_SECRET, body), HexDigest(SECRET, M2)}

\* the webhook inputs of the wide specification: every body correctly signed,
\* and three bodies under every signature
WidePool ==
    {Signed(b) : b \in WideBodies}
    \cup UNION {{[body |-> b, sig |-> g] : g \in Signatures(b)} :
                    b \in {M1a, EmptyId, NonObject("array")}}

\* query strings of GET /messages
ListInputs ==
    {<<>>,
     [limit |-> 1, offset |-> 1],
     [limit |-> 1, from |-> PHONE_1],
     [limit |-> 0],
     [limit |-> 101],
     [offset |-> 0 - 1]}

SmallListInputs == {<<>>, [limit |-> 1, from |-> PHONE_1], [limit |-> 0]}

\* query strings of the query specification: every filter alone, empty,
\* with LIKE's special characters, combined, and pages of several sizes
QueryListInputs ==
    {<<>>,
     [from |-> PHONE_1], [from |-> <<>>], [from |-> <<"+">>],
     [since |-> TS_2], [since |-> <<"2025-01-15T10:01:00">>],
     [q |-> <<"h">>], [q |-> <<"H", "i">>], [q |-> <<"%">>], [q |-> <<"_">>], [q |-> <<>>],
     [from |-> PHONE_1, since |-> TS_1, q |-> <<"h">>],
     [from |-> PHONE_1, since |-> TS_2, q |-> <<"a">>],
     [limit |-> 1], [limit |-> 1, offset |-> 1], [limit |-> 2, offset |-> 1],
     [limit |-> 100, offset |-> 3], [limit |-> 1, from |-> PHONE_1],
     [limit |-> 0], [limit |-> 101], [offset |-> 0 - 1]}

\* the webhook inputs of the query specification
QueryPool == {Signed(M3), Signed(NonObject("array")), [body |-> M1a, sig |-> NoSig]}

\* the table after the messages msgs were ingested one after the other
RECURSIVE Ingested(_, _)
Ingested(table, msgs) ==
    IF msgs = <<>> THEN table
    ELSE Ingested(insert_message(table, WebhookMessage(Head(msgs)), Len(table)).table,
                  Tail(msgs))

\* three messages, ingested in every order: two share a ts, and the order
\* by message_id differs from the order by ts
Permutations3 ==
    {<<a, b, c>> : a, b, c \in {M0.obj, M1a.obj, Msg(ID_2, PHONE_2, PHONE_1, TS_1, None)}}

SmallTables ==
    {Ingested(<<>>, msgs) : msgs \in {p \in Permutations3 :
                                        p[1] # p[2] /\ p[1] # p[3] /\ p[2] # p[3]}}

\* eleven senders, one more than LIMIT 10 keeps, with these numbers of messages
Volumes == <<1, 1, 2, 2, 3, 4, 5, 6, 7, 8, 9>>

RECURSIVE Sum(_, _)
Sum(f, n) == IF n = 0 THEN 0 ELSE f[n] + Sum(f, n - 1)

Digit(n) == <<"0", "1", "2">>[n + 1]

PhoneOf(i) ==
    IF i <= 3 THEN <<"+", Digit(i - 1)>>
    ELSE <<"+", Digit((i - 4) \div 3), Digit((i - 4) % 3)>>

IdOf(n) == <<"m", Digit(n \div 27), Digit((n \div 9) % 3), Digit((n \div 3) % 3), Digit(n % 3)>>

SenderOf(n) ==
    CHOOSE i \in 1..Len(Volumes) : Sum(Volumes, i - 1) < n /\ n <= Sum(Volumes, i)

ManyMessages ==
    [n \in 1..Sum(Volumes, Len(Volumes)) |->
        Msg(IdOf(n), PhoneOf(SenderOf(n)), PHONE_2, IF n % 2 = 0 THEN TS_1 ELSE TS_2, HI)]

\* the table after ManyMessages were ingested in order, eight at a time
ManySendersTable8 == Ingested(<<>>, SubSeq(ManyMessages, 1, 8))
ManySendersTable16 == Ingested(ManySendersTable8, SubSeq(ManyMessages, 9, 16))
ManySendersTable24 == Ingested(ManySendersTable16, SubSeq(ManyMessages, 17, 24))
ManySendersTable32 == Ingested(ManySendersTable24, SubSeq(ManyMessages, 25, 32))
ManySendersTable40 == Ingested(ManySendersTable32, SubSeq(ManyMessages, 33, 40))
ManySendersTable == Ingested(ManySendersTable40, SubSeq(ManyMessages, 41, Len(ManyMessages)))

QueryTables == {<<>>} \cup SmallTables

\* tables of many senders: up to ten of them, and eleven
SendersTables ==
    {ManySendersTable8, ManySendersTable16, ManySendersTable24, ManySendersTable32,
     ManySendersTable40, ManySendersTable}

\* only an unset secret is refused
validate_webhook_secret_UnsetOnly(webhook_secret) == webhook_secret # None

\* config.Settings.validate_webhook_secret: TRUE when it returns, FALSE when
\* it raises ValueError
validate_webhook_secret(webhook_secret) == Truthy(webhook_secret)

\* the environment of the process: TESTING set or not, WEBHOOK_SECRET a
\* string, the empty string, or unset
Environments ==
    {[TESTING |-> t, WEBHOOK_SECRET |-> k] : t \in BOOLEAN, k \in {SECRET, <<>>, None}}

Production == {[TESTING |-> FALSE, WEBHOOK_SECRET |-> SECRET]}

\* main.py 20-22: the module loads without raising
StartupOk(env) == env.TESTING \/ validate_webhook_secret(env.WEBHOOK_SECRET)

(***************************************************************************)
(* Requests                                                                *)
(***************************************************************************)
Idle == [pc |-> "idle"]

NoResponse == [status |-> 0, body |-> <<>>, headers |-> <<>>]

\* uuid.uuid4(): the n-th value drawn while serving request rid
Uuid(rid, n) == <<rid, n>>

Busy == {w \in Workers : inflight[w] # Idle}

\* main.py 62-71: logging_middleware up to call_next. It is registered last
\* and so runs first, on a request whose state is still empty.
LoggingEnter(rid, state) ==
    IF "request_id" \in DOMAIN state
    THEN [request_id |-> state.request_id, state |-> state]
    ELSE [request_id |-> Uuid(rid, 1), state |-> [request_id |-> Uuid(rid, 1)]]

\* main.py 52-55: add_request_id up to call_next
AddRequestIdEnter(rid, state) ==
    [request_id |-> Uuid(rid, 2), state |-> [request_id |-> Uuid(rid, 2)]]

\* the request as the route handler receives it
NewRequest(rid, kind, method, path, input) ==
    LET outer == LoggingEnter(rid, <<>>)
        inner == AddRequestIdEnter(rid, outer.state)
    IN [rid |-> rid, kind |-> kind, method |-> method, path |-> path,
        input |-> input, pc |-> kind, seen |-> Len(history),
        logging_request_id |-> outer.request_id,
        header_request_id |-> inner.request_id,
        state |-> inner.state,
        local |-> <<>>, insert_calls |-> 0, reads |-> {}, result |-> "",
        connections |-> 0, fault |-> "none",
        response |-> NoResponse]

Endpoints ==
    {[kind |-> "webhook", method |-> "POST", path |-> "/webhook"],
     [kind |-> "messages", method |-> "GET", path |-> "/messages"],
     [kind |-> "stats", method |-> "GET", path |-> "/stats"],
     [kind |-> "health_live", method |-> "GET", path |-> "/health/live"],
     [kind |-> "health_ready", method |-> "GET", path |-> "/health/ready"]}

InputsOf(kind) ==
    CASE kind = "webhook" -> pool.webhook
      [] kind = "messages" -> pool.messages
      [] OTHER -> {<<>>}

\* main.py 13-47: the module is loaded; the process serves requests when
\* loading did not raise
Startup ==
    /\ process.phase = "loading"
    /\ process' = [process EXCEPT !.phase = IF StartupOk(process.env) THEN "serving"
                                             ELSE "aborted"]
    /\ UNCHANGED <<settings, store, clock, webhook_requests_total, http_requests_total,
                   log, inflight, history, pool, budget>>

\* a request arrives and passes the two middlewares on its way in
Arrive(w) ==
    /\ process.phase = "serving"
    /\ budget > 0
    /\ inflight[w] = Idle
    /\ \A v \in Workers : v < w => inflight[v] # Idle
    /\ \E e \in Endpoints : \E input \in InputsOf(e.kind) :
         inflight' = [inflight EXCEPT ![w] =
            NewRequest(Len(history) + Cardinality(Busy) + 1,
                       e.kind, e.method, e.path, input)]
    /\ budget' = budget - 1
    /\ UNCHANGED <<process, settings, store, clock, webhook_requests_total,
                   http_requests_total, log, history, pool>>

\* every outcome is counted under created
record_webhook_request_Created(counter, result) == counter (+) SetToBag({"created"})

\* metrics.record_webhook_request
record_webhook_request(counter, result) == counter (+) SetToBag({result})

\* metrics.record_http_request
record_http_request(counter, path, status) == counter (+) SetToBag({<<path, status>>})

\* the record the webhook handler hands to the logger for a rejected request
RejectRecord(r, status, result) ==
    [request_id |-> r.state.request_id, method |-> r.method, path |-> r.path,
     status |-> status, latency_ms |-> "0", result |-> result]

\* main.py 213 / 234: raise HTTPException(status_code=401, ...)
Reject401 ==
    [next |-> "reject", status |-> 401, result |-> "invalid_signature",
     detail |-> "invalid signature"]

\* main.py 236-260: parse and validate the body
ParseStep(body) ==
    LET exc == ParseRaises(body) IN
    IF exc = "none"
    THEN [next |-> "insert", status |-> 0, result |-> "", detail |-> ""]
    ELSE IF ParseCaught(exc)
    THEN [next |-> "reject", status |-> 422, result |-> "validation_error",
          detail |-> exc]
    ELSE [next |-> "raise", status |-> 500, result |-> "", detail |-> exc]

\* the handler records invalid_signature and goes on instead of raising
WebhookCheck_NoRaise(secret, body, sig) ==
    IF SigFalsy(sig)
    THEN [ParseStep(body) EXCEPT !.result = "invalid_signature"]
    ELSE LET v == verify_signature(secret, body, sig) IN
      IF v \notin {"True", "False"}
      THEN [next |-> "raise", status |-> 500, result |-> "", detail |-> v]
      ELSE IF v = "False" THEN Reject401
      ELSE ParseStep(body)

\* main.py 193-260: the checks of the webhook handler before the insert.
\* next is "reject" (HTTPException), "raise" (an exception nothing catches)
\* or "insert".
WebhookCheck(secret, body, sig) ==
    IF SigFalsy(sig) THEN Reject401
    ELSE LET v == verify_signature(secret, body, sig) IN
      IF v \notin {"True", "False"}
      THEN [next |-> "raise", status |-> 500, result |-> "", detail |-> v]
      ELSE IF v = "False" THEN Reject401
      ELSE ParseStep(body)

\* POST /webhook, main.py 188-260
Webhook(w) ==
    LET r == inflight[w]
        c == WebhookCheck(settings.webhook_secret, r.input.body, r.input.sig)
    IN
    /\ r.pc = "webhook"
    /\ CASE c.next = "reject" ->
              /\ webhook_requests_total' = record_webhook_request(webhook_requests_total, c.result)
              /\ log' = log (+) SetToBag({RejectRecord(r, c.status, c.result)})
              /\ inflight' = [inflight EXCEPT ![w] =
                    [r EXCEPT !.pc = "return", !.result = c.result,
                              !.response = [status |-> c.status,
                                            body |-> [detail |-> c.detail],
                                            headers |-> <<>>]]]
         [] c.next = "raise" ->
              /\ inflight' = [inflight EXCEPT ![w] =
                    [r EXCEPT !.pc = "raised", !.local = [exception |-> c.detail]]]
              /\ UNCHANGED <<webhook_requests_total, log>>
         [] c.next = "insert" ->
              /\ inflight' = [inflight EXCEPT ![w] =
                    [r EXCEPT !.pc = "insert", !.result = c.result,
                              !.local = [message |-> WebhookMessage(r.input.body.obj)]]]
              /\ UNCHANGED <<webhook_requests_total, log>>
    /\ UNCHANGED <<process, settings, store, clock, http_requests_total, history, pool, budget>>

\* the handler of worker w ends in an exception nothing catches, after the
\* store did fault and with n connections of the operation still open
Raise(w, fault, n) ==
    inflight' = [inflight EXCEPT ![w] =
        [@ EXCEPT !.pc = "raised", !.fault = fault, !.connections = n]]

\* main.py 262-269: storage.insert_message, one INSERT and its commit
WebhookInsert(w) ==
    LET r == inflight[w] IN
    /\ r.pc = "insert"
    /\ \E fault \in pool.faults :
         LET res == Storage_insert_message(store, r.local.message, clock, fault) IN
         /\ store' = res.table
         /\ clock' = IF fault = "connect" THEN clock ELSE clock + 1
         /\ inflight' = [inflight EXCEPT ![w] =
               IF res.returns \in {"True", "False"}
               THEN [r EXCEPT !.pc = "record", !.insert_calls = @ + 1,
                              !.fault = fault, !.connections = res.open,
                              !.local = [message |-> r.local.message, created_at |-> clock,
                                         inserted |-> res.returns = "True"]]
               ELSE [r EXCEPT !.pc = "raised", !.insert_calls = @ + 1,
                              !.fault = fault, !.connections = res.open,
                              !.local = [message |-> r.local.message,
                                         raised |-> res.returns]]]
    /\ UNCHANGED <<process, settings, webhook_requests_total, http_requests_total, log,
                   history, pool, budget>>

\* every accepted request is classified created
Classify_AlwaysCreated(inserted) == "created"

\* main.py 271: the classification of an accepted request
Classify(inserted) == IF inserted THEN "created" ELSE "duplicate"

\* the acknowledgment tells a duplicate from a new message
WebhookResponse_TellsDuplicate(result) ==
    [status |-> 200,
     body |-> [status |-> IF result = "duplicate" THEN "duplicate" ELSE "ok"],
     headers |-> <<>>]

\* main.py 294: WebhookResponse(status="ok")
WebhookResponse(result) == [status |-> 200, body |-> [status |-> "ok"], headers |-> <<>>]

\* main.py 271-294
WebhookRecord(w) ==
    LET r == inflight[w]
        result == Classify(r.local.inserted)
    IN
    /\ r.pc = "record"
    /\ webhook_requests_total' = record_webhook_request(webhook_requests_total, result)
    /\ log' = log (+) SetToBag({
          [request_id |-> r.state.request_id, method |-> r.method, path |-> r.path,
           status |-> 200, latency_ms |-> "0",
           message_id |-> r.local.message.message_id,
           dup |-> ~r.local.inserted, result |-> result]})
    /\ inflight' = [inflight EXCEPT ![w] =
          [r EXCEPT !.pc = "return", !.result = result,
                    !.response = WebhookResponse(result)]]
    /\ UNCHANGED <<process, settings, store, clock, http_requests_total, history, pool, budget>>

\* main.py 299-300: Query(50, ge=1, le=100), Query(0, ge=0)
DefaultLimit == 50
MinLimit == 1
MaxLimit == 100
DefaultOffset == 0
MinOffset == 0

Param(input, k, default) == IF k \in DOMAIN input THEN input[k] ELSE default

\* the arguments get_messages is called with, defaults filled in
ListArgs(input) ==
    [limit |-> Param(input, "limit", DefaultLimit),
     offset |-> Param(input, "offset", DefaultOffset),
     from_msisdn |-> Param(input, "from", None),
     since |-> Param(input, "since", None),
     q |-> Param(input, "q", None)]

\* limit has a lower bound only
QueryValid_NoUpperBound(a) ==
    /\ a.limit >= MinLimit
    /\ a.offset >= MinOffset

\* the Query constraints hold
QueryValid(a) ==
    /\ a.limit >= MinLimit /\ a.limit <= MaxLimit
    /\ a.offset >= MinOffset

\* GET /messages: parameter validation, then storage.py 70-95 (the COUNT statement)
Messages(w) ==
    LET r == inflight[w]
        a == ListArgs(r.input)
    IN
    /\ r.pc = "messages"
    /\ IF ~QueryValid(a)
       THEN inflight' = [inflight EXCEPT ![w] =
              [r EXCEPT !.pc = "return",
                        !.response = [status |-> 422,
                                      body |-> [detail |-> "RequestValidationError"],
                                      headers |-> <<>>]]]
       ELSE \E fault \in pool.faults :
              IF fault = "connect" THEN Raise(w, fault, 0)
              ELSE IF fault = "execute" THEN Raise(w, fault, 1)
              ELSE inflight' = [inflight EXCEPT ![w] =
                     [r EXCEPT !.pc = "page", !.reads = @ \cup {store},
                               !.connections = 1,
                               !.local = [total |-> CountQuery(store, a.from_msisdn,
                                                               a.since, a.q)]]]
    /\ UNCHANGED <<process, settings, store, clock, webhook_requests_total, http_requests_total,
                   log, history, pool, budget>>

\* storage.py 97-120 (the page statement) and main.py 314-319
MessagesPage(w) ==
    LET r == inflight[w]
        a == ListArgs(r.input)
        messages == PageQuery(store, a.limit, a.offset, a.from_msisdn, a.since, a.q)
    IN
    /\ r.pc = "page"
    /\ \E fault \in pool.faults \cap StatementFaults :
         IF fault = "execute" THEN Raise(w, fault, r.connections)
         ELSE inflight' = [inflight EXCEPT ![w] =
                [r EXCEPT !.pc = "return", !.reads = @ \cup {store},
                          !.connections = 0,
                          !.response = [status |-> 200,
                                        body |-> [data |-> messages, total |-> r.local.total,
                                                  limit |-> a.limit, offset |-> a.offset],
                                        headers |-> <<>>]]]
    /\ UNCHANGED <<process, settings, store, clock, webhook_requests_total, http_requests_total,
                   log, history, pool, budget>>

\* get_stats of worker w has executed a statement and moves to pc with locals
\* l, or the statement raised and get_stats ends without reaching close()
Goto(w, pc, l) ==
    \E fault \in pool.faults \cap StatementFaults :
        IF fault = "execute" THEN Raise(w, fault, 1)
        ELSE inflight' = [inflight EXCEPT ![w] =
               [@ EXCEPT !.pc = pc, !.local = l, !.reads = @ \cup {store},
                         !.connections = 1]]

\* get_stats of worker w has executed its last statement, closes the
\* connection and returns body, or the statement raised
ReturnStats(w, body) ==
    \E fault \in pool.faults \cap StatementFaults :
        IF fault = "execute" THEN Raise(w, fault, 1)
        ELSE inflight' = [inflight EXCEPT ![w] =
               [@ EXCEPT !.pc = "return", !.reads = @ \cup {store},
                         !.connections = 0,
                         !.response = [status |-> 200, body |-> body, headers |-> <<>>]]]

\* the handler of worker w returns body with status 200
Respond(w, body) ==
    inflight' = [inflight EXCEPT ![w] =
        [@ EXCEPT !.pc = "return",
                  !.response = [status |-> 200, body |-> body, headers |-> <<>>]]]

OnlyInflight ==
    UNCHANGED <<process, settings, store, clock, webhook_requests_total, http_requests_total,
                log, history, pool, budget>>

\* GET /stats, storage.py 124-139
Stats(w) ==
    LET total_messages == StatsTotalQuery(store) IN
    /\ inflight[w].pc = "stats"
    /\ \E connect \in (pool.faults \ StatementFaults) \cup {"none"} :
         IF connect = "connect" THEN Raise(w, connect, 0)
         ELSE IF total_messages = 0
         THEN ReturnStats(w, [total_messages |-> 0, senders_count |-> 0,
                              messages_per_sender |-> <<>>,
                              first_message_ts |-> None, last_message_ts |-> None])
         ELSE Goto(w, "senders", [total_messages |-> total_messages])
    /\ OnlyInflight

\* storage.py 141-143
StatsSenders(w) ==
    LET l == inflight[w].local IN
    /\ inflight[w].pc = "senders"
    /\ Goto(w, "top", [total_messages |-> l.total_messages,
                       senders_count |-> StatsSendersQuery(store)])
    /\ OnlyInflight

\* storage.py 145-156
StatsTop(w) ==
    LET l == inflight[w].local IN
    /\ inflight[w].pc = "top"
    /\ \E top \in StatsTopQuery(store) :
         Goto(w, "first", [total_messages |-> l.total_messages,
                           senders_count |-> l.senders_count,
                           top_senders |-> top])
    /\ OnlyInflight

\* storage.py 158-160
StatsFirst(w) ==
    LET l == inflight[w].local IN
    /\ inflight[w].pc = "first"
    /\ Goto(w, "last", [total_messages |-> l.total_messages,
                        senders_count |-> l.senders_count,
                        top_senders |-> l.top_senders,
                        first_ts |-> StatsFirstQuery(store)])
    /\ OnlyInflight

\* storage.py 162-173
StatsLast(w) ==
    LET l == inflight[w].local IN
    /\ inflight[w].pc = "last"
    /\ ReturnStats(w, [total_messages |-> l.total_messages,
                       senders_count |-> l.senders_count,
                       messages_per_sender |-> l.top_senders,
                       first_message_ts |-> l.first_ts,
                       last_message_ts |-> StatsLastQuery(store)])
    /\ OnlyInflight

\* GET /health/live
HealthLive(w) ==
    /\ inflight[w].pc = "health_live"
    /\ Respond(w, [status |-> "ok"])
    /\ OnlyInflight

\* the readiness probe looks at the store only
health_ready_StoreOnly(healthy, webhook_secret) ==
    IF ~healthy
    THEN [status |-> 503, body |-> "Database not ready", headers |-> <<>>]
    ELSE [status |-> 200, body |-> [status |-> "ok"], headers |-> <<>>]

\* main.py 335-346: health_ready, given what storage.check_health returned
health_ready(healthy, webhook_secret) ==
    IF ~healthy
    THEN [status |-> 503, body |-> "Database not ready", headers |-> <<>>]
    ELSE IF ~Truthy(webhook_secret)
    THEN [status |-> 503, body |-> "WEBHOOK_SECRET not set", headers |-> <<>>]
    ELSE [status |-> 200, body |-> [status |-> "ok"], headers |-> <<>>]

\* GET /health/ready, main.py 335-346
HealthReady(w) ==
    /\ inflight[w].pc = "health_ready"
    /\ \E fault \in pool.faults :
         LET health == check_health(fault) IN
         inflight' = [inflight EXCEPT ![w] =
            [@ EXCEPT !.pc = "return", !.fault = fault, !.connections = health.open,
                      !.response = health_ready(health.returns, settings.webhook_secret)]]
    /\ OnlyInflight

\* main.py 56-58 and 74-105: the response passes add_request_id, then
\* logging_middleware, and leaves
Return(w) ==
    LET r == inflight[w]
        response == [r.response EXCEPT !.headers = [X_Request_ID |-> r.header_request_id]]
    IN
    /\ r.pc = "return"
    /\ log' = log (+) SetToBag({
          [request_id |-> r.logging_request_id, method |-> r.method, path |-> r.path,
           status |-> response.status, latency_ms |-> "elapsed"]})
    /\ http_requests_total' = record_http_request(http_requests_total, r.path, response.status)
    /\ history' = Append(history, [r EXCEPT !.pc = "done", !.response = response])
    /\ inflight' = [inflight EXCEPT ![w] = Idle]
    /\ UNCHANGED <<process, settings, store, clock, webhook_requests_total, pool, budget>>

\* an exception no handler catches leaves through both middlewares (call_next
\* raises in each) and the server answers 500
ServerError(w) ==
    LET r == inflight[w] IN
    /\ r.pc = "raised"
    /\ history' = Append(history,
          [r EXCEPT !.pc = "done",
                    !.response = [status |-> 500, body |-> "Internal Server Error",
                                  headers |-> <<>>]])
    /\ inflight' = [inflight EXCEPT ![w] = Idle]
    /\ UNCHANGED <<process, settings, store, clock, webhook_requests_total,
                   http_requests_total, log, pool, budget>>

(***************************************************************************)
(* Specifications                                                          *)
(***************************************************************************)
InitWith(p, n, tables, envs) ==
    /\ \E env \in envs :
         /\ process = [phase |-> "loading", env |-> env]
         /\ settings = [webhook_secret |-> env.WEBHOOK_SECRET]
    /\ store \in tables
    /\ clock = Len(store)
    /\ webhook_requests_total = EmptyBag
    /\ http_requests_total = EmptyBag
    /\ log = EmptyBag
    /\ inflight = [w \in Workers |-> Idle]
    /\ history = <<>>
    /\ pool = p
    /\ budget = n

\* concurrent requests over a few inputs, on an empty table or on the table
\* an earlier run of the service left (init_db keeps an existing table)
Init ==
    InitWith([webhook |-> SmallPool, messages |-> SmallListInputs,
              faults |-> {"none"}], MaxReqs,
             {<<>>, Ingested(<<>>, <<M0.obj>>)}, Production)

\* few requests over every input, under every environment the service
\* starts in
InitWide ==
    InitWith([webhook |-> WidePool, messages |-> ListInputs, faults |-> Faults],
             MaxWideReqs,
             {insert_message(<<>>, WebhookMessage(M2.obj), 0).table}, Environments)

\* few requests over every query, on tables of several contents
InitQuery ==
    InitWith([webhook |-> QueryPool, messages |-> QueryListInputs,
              faults |-> {"none"}], MaxQueryReqs,
             QueryTables, Production)

Next ==
    \/ Startup
    \/ \E w \in Workers :
        \/ Arrive(w)
        \/ Webhook(w)
        \/ WebhookInsert(w)
        \/ WebhookRecord(w)
        \/ Messages(w)
        \/ MessagesPage(w)
        \/ Stats(w)
        \/ StatsSenders(w)
        \/ StatsTop(w)
        \/ StatsFirst(w)
        \/ StatsLast(w)
        \/ HealthLive(w)
        \/ HealthReady(w)
        \/ Return(w)
        \/ ServerError(w)

Spec == Init /\ [][Next]_vars

SpecWide == InitWide /\ [][Next]_vars

SpecQuery == InitQuery /\ [][Next]_vars

\* few requests on tables of many senders
InitSenders ==
    InitWith([webhook |-> QueryPool, messages |-> SmallListInputs,
              faults |-> {"none"}], MaxQueryReqs, SendersTables, Production)

SpecSenders == InitSenders /\ [][Next]_vars

\* concurrent requests over a few inputs, on the table a first start creates
InitFresh ==
    InitWith([webhook |-> SmallPool, messages |-> SmallListInputs,
              faults |-> {"none"}], MaxReqs, {<<>>}, Production)

SpecFresh == InitFresh /\ [][Next]_vars

(***************************************************************************)
(* Vocabulary of the properties                                            *)
(***************************************************************************)
Done == {history[i] : i \in 1..Len(history)}
Serving == {inflight[w] : w \in Busy}
Requests == Done \cup Serving

DoneWebhooks == {i \in 1..Len(history) : history[i].kind = "webhook"}

\* the signature is the hex HMAC-SHA256 of the body under the configured secret
CorrectlySigned(r) == r.input.sig = HexDigest(settings.webhook_secret, r.input.body)

\* + followed by one or more of the digits 0-9
PlusDigits(v) ==
    /\ v # None /\ v # Missing
    /\ Len(v) >= 2 /\ v[1] = "+"
    /\ \A i \in 2..Len(v) : v[i] \in AsciiDigits

\* an ISO-8601 date and time followed by Z
IsoUtc(v) == \E dt \in DateTimes : v = <<dt, "Z">>

\* the field constraints of a Message
ValuesValid(id, from, to, ts, text) ==
    /\ id # None /\ id # Missing /\ Len(id) >= 1
    /\ PlusDigits(from) /\ PlusDigits(to)
    /\ IsoUtc(ts)
    /\ text = None \/ text = Missing \/ Len(text) <= MaxTextLength

\* a JSON object with the fields of a Message, holding valid values
ValidMessage(d) ==
    ValuesValid(Get(d, "message_id"), Get(d, "from_msisdn"), Get(d, "to_msisdn"),
                Get(d, "ts"), Get(d, "text"))

\* a JSON object with the keys message_id, from, to, ts, text, holding valid values
ValidWireMessage(d) ==
    /\ DOMAIN d = {"message_id", "from", "to", "ts", "text"}
    /\ ValuesValid(d.message_id, d.from, d.to, d.ts, d.text)

ValidBody(b) == b.kind = "object" /\ ValidMessage(b.obj)

RowsWith(id) == {i \in 1..Len(store) : store[i].message_id = id}

Ok200(r) == r.response.status = 200 /\ r.response.body = [status |-> "ok"]

\* the request called insert_message and has its return value
HasInserted(r) == r.kind = "webhook" /\ "inserted" \in DOMAIN r.local

Rejected(r) == r.result \in {"invalid_signature", "validation_error"}

C2_WireMessageAccepted ==
    \A i \in DoneWebhooks :
        LET r == history[i] IN
        (/\ CorrectlySigned(r)
         /\ r.input.body.kind = "object"
         /\ ValidWireMessage(r.input.body.obj))
        => /\ Ok200(r)
           /\ Cardinality(RowsWith(r.input.body.obj.message_id)) = 1

(***************************************************************************)
(* C3: a webhook request with no signature, or with a signature that is    *)
(* not the hex HMAC-SHA256 of its body under the secret, is answered 401   *)
(* and classified invalid_signature, whatever its body.                    *)
(***************************************************************************)
C3_SignatureGate ==
    \A i \in DoneWebhooks :
        LET r == history[i] IN
        ~CorrectlySigned(r)
        => r.response.status = 401 /\ r.result = "invalid_signature"

(***************************************************************************)
(* C4: a correctly signed request whose object breaks a field constraint   *)
(* or lacks a required field is answered 422, classified validation_error, *)
(* and insert_message is not called for it; every stored row satisfies     *)
(* the field constraints.                                                  *)
(***************************************************************************)
RowValid(row) ==
    ValuesValid(row.message_id, row.from_msisdn, row.to_msisdn, row.ts, row.text)

C4_ValidationGate ==
    /\ \A i \in DoneWebhooks :
          LET r == history[i] IN
          (/\ CorrectlySigned(r)
           /\ r.input.body.kind = "object"
           /\ ~ValidMessage(r.input.body.obj))
          => /\ r.response.status = 422
             /\ r.result = "validation_error"
             /\ r.insert_calls = 0
    /\ \A k \in 1..Len(store) : RowValid(store[k])

(***************************************************************************)
(* C5: no step deletes or changes a stored row, and an insert_message call *)
(* for a message_id that is already stored leaves the table as it is,      *)
(* returns false and is classified duplicate.                              *)
(***************************************************************************)
C5_RowsImmutable ==
    [][/\ Len(store') >= Len(store)
       /\ \A k \in 1..Len(store) : store'[k] = store[k]
       /\ \A w \in Workers :
            (/\ inflight[w].pc = "insert" /\ inflight'[w].pc = "record"
             /\ RowsWith(inflight[w].local.message.message_id) # {})
            => /\ store' = store
               /\ inflight'[w].local.inserted = FALSE
       /\ \A w \in Workers :
            (/\ inflight[w].pc = "record" /\ inflight'[w].pc = "return"
             /\ ~inflight[w].local.inserted)
            => inflight'[w].result = "duplicate"]_vars

C5_Witness ==
    \E r \in Done : \E k \in 1..Len(store) :
        /\ r.result = "duplicate"
        /\ store[k].message_id = r.local.message.message_id
        /\ store[k].from_msisdn # r.local.message.from_msisdn
        /\ store[k].ts # r.local.message.ts

(***************************************************************************)
(* C6: among the webhook requests that called insert_message for the same  *)
(* message_id, in every interleaving exactly one got inserted = true and   *)
(* is classified created, every other one got false and is classified      *)
(* duplicate, and the store holds exactly one row for that message_id.     *)
(***************************************************************************)
C6_ExactlyOneFirst ==
    \A id \in {r.local.message.message_id : r \in {q \in Requests : HasInserted(q)}} :
        LET callers == {r \in Requests :
                          HasInserted(r) /\ r.local.message.message_id = id}
            first == {r \in callers : r.local.inserted}
        IN /\ Cardinality(first) = 1
           /\ Cardinality(RowsWith(id)) = 1
           /\ \A r \in callers \cap Done :
                r.result = IF r \in first THEN "created" ELSE "duplicate"

\* two requests for the same message_id that overlapped in time
C6_Witness ==
    \E i, j \in DoneWebhooks :
        /\ i < j /\ history[j].seen < i
        /\ HasInserted(history[i]) /\ HasInserted(history[j])
        /\ history[i].local.message.message_id = history[j].local.message.message_id
        /\ history[i].result = "duplicate" /\ history[j].result = "created"

(***************************************************************************)
(* C7: no step of a webhook request that is classified invalid_signature   *)
(* or validation_error changes the store, and such a request has not       *)
(* called insert_message.                                                  *)
(***************************************************************************)
C7_RejectedLeavesStore ==
    [][\A w \in Workers :
         (inflight[w] # Idle /\ inflight'[w] # inflight[w])
         => LET after == IF inflight'[w] = Idle
                         THEN history'[Len(history')] ELSE inflight'[w]
            IN Rejected(after) => store' = store /\ after.insert_calls = 0]_vars

C7_Witness ==
    \E j \in DoneWebhooks :
        /\ Rejected(history[j])
        /\ history[j].seen >= 1
        /\ history[1].result = "created"
        /\ Len(store) = 1

(***************************************************************************)
(* C8: a correctly signed webhook request whose body is not a valid        *)
(* message (not UTF-8, not JSON, JSON that is no object, or an invalid     *)
(* object) is answered 422 and classified validation_error.                *)
(***************************************************************************)
C8_InvalidBodyIs422 ==
    \A i \in DoneWebhooks :
        LET r == history[i] IN
        (CorrectlySigned(r) /\ ~ValidBody(r.input.body))
        => r.response.status = 422 /\ r.result = "validation_error"

(***************************************************************************)
(* C9: every accepted webhook request, created or duplicate, gets the same *)
(* response: status 200 and body {status: ok}.                             *)
(***************************************************************************)
Accepted(r) == r.kind = "webhook" /\ r.result \in {"created", "duplicate"}

C9_SameAcknowledgment ==
    \A a, b \in Done :
        (Accepted(a) /\ Accepted(b))
        => /\ a.response.status = b.response.status
           /\ a.response.body = b.response.body
           /\ Ok200(a)

C9_Witness ==
    \E a, b \in Done :
        /\ a.kind = "webhook" /\ b.kind = "webhook"
        /\ a.result = "created" /\ b.result = "duplicate"
        /\ a.response.body = b.response.body

(***************************************************************************)
(* C10: the page a listing returns never holds more entries than the total *)
(* returned with it.                                                       *)
(***************************************************************************)
C10_PageWithinTotal ==
    \A r \in Done :
        (r.kind = "messages" /\ r.response.status = 200)
        => Len(r.response.body.data) <= r.response.body.total

(***************************************************************************)
(* Vocabulary of the query properties                                      *)
(***************************************************************************)
DoneListings == {r \in Done : r.kind = "messages" /\ r.response.status = 200}

DoneStats == {r \in Done : r.kind = "stats" /\ r.response.status = 200}

\* every statement of the request read the same table
OneSnapshot(r) == Cardinality(r.reads) = 1

TableRead(r) == CHOOSE t \in r.reads : TRUE

Max(a, b) == IF a >= b THEN a ELSE b

\* lowercase(q) occurs in lowercase(text) as a contiguous substring
Contains(text, q) ==
    \E i \in 0..(Len(text) - Len(q)) :
        \A j \in 1..Len(q) : LowerChar(text[i + j]) = LowerChar(q[j])

\* q matches the row: its text is not null and contains q literally
TextMatch(row, q) == row.text # None /\ Contains(row.text, q)

\* every filter the query string supplies holds for the row
FilterHolds(row, input) ==
    /\ "from" \in DOMAIN input => row.from_msisdn = input.from
    /\ "since" \in DOMAIN input => LexLeq(input.since, row.ts)
    /\ "q" \in DOMAIN input => TextMatch(row, input.q)

Matching(table, input) == {k \in 1..Len(table) : FilterHolds(table[k], input)}

(***************************************************************************)
(* C11: a listing over one table counts exactly the rows for which every   *)
(* supplied filter holds (from: equal; since: ts >= since; q: text match)  *)
(* and returns only such rows, as many as limit and offset leave of them;  *)
(* only a filter that is not supplied imposes no restriction. (Stated for   *)
(* a q, when supplied, that is not empty and holds neither % nor _.)       *)
(***************************************************************************)
PlainQ(input) ==
    "q" \in DOMAIN input
    => /\ input.q # <<>>
       /\ \A i \in 1..Len(input.q) : input.q[i] \notin {"%", "_"}

C11_FiltersConjunctive ==
    \A r \in DoneListings :
        (OneSnapshot(r) /\ PlainQ(r.input)) =>
        LET table == TableRead(r)
            a == ListArgs(r.input)
            matching == Matching(table, r.input)
            data == r.response.body.data
        IN /\ r.response.body.total = Cardinality(matching)
           /\ \A i \in 1..Len(data) : \E k \in matching : data[i] = RowDict(table[k])
           /\ Len(data) = Min(a.limit, Max(0, Cardinality(matching) - a.offset))

(***************************************************************************)
(* C12: a listing over one table whose only filter is a non-empty q counts *)
(* exactly the rows whose text is not null and contains q as a literal     *)
(* substring without regard to case; % and _ in q stand for themselves.    *)
(***************************************************************************)
C12_LiteralSubstring ==
    \A r \in DoneListings :
        (/\ OneSnapshot(r)
         /\ "q" \in DOMAIN r.input /\ r.input.q # <<>>
         /\ DOMAIN r.input \subseteq {"q", "limit", "offset"})
        => LET table == TableRead(r) IN
           r.response.body.total =
               Cardinality({k \in 1..Len(table) : TextMatch(table[k], r.input.q)})

(***************************************************************************)
(* C13: GET /messages with limit < 1, limit > 100 or offset < 0 is         *)
(* answered 422 and no statement of the request reads the table; any other *)
(* listing is answered 200, with limit 50 when limit is omitted and offset *)
(* 0 when offset is omitted.                                               *)
(***************************************************************************)
OutOfRange(input) ==
    \/ "limit" \in DOMAIN input /\ (input.limit < 1 \/ input.limit > 100)
    \/ "offset" \in DOMAIN input /\ input.offset < 0

C13_PaginationGate ==
    \A r \in Done :
        r.kind = "messages" =>
        IF OutOfRange(r.input)
        THEN r.response.status = 422 /\ r.reads = {}
        ELSE /\ r.response.status = 200
             /\ "limit" \notin DOMAIN r.input => r.response.body.limit = 50
             /\ "offset" \notin DOMAIN r.input => r.response.body.offset = 0
             /\ "limit" \in DOMAIN r.input => r.response.body.limit = r.input.limit
             /\ "offset" \in DOMAIN r.input => r.response.body.offset = r.input.offset

\* a listing with limit above 100 was rejected on a table that holds rows
C13_Witness ==
    /\ Len(store) > 0
    /\ \E r \in Done :
         /\ r.kind = "messages" /\ r.response.status = 422 /\ r.reads = {}
         /\ "limit" \in DOMAIN r.input /\ r.input.limit > 100

(***************************************************************************)
(* C14: the total of a listing over one table equals the number of rows    *)
(* for which all supplied filters hold, whatever limit and offset are, and *)
(* two listings over the same table with the same filters return the same  *)
(* total. (Stated for a q, when supplied, that is not empty and holds      *)
(* neither % nor _.)                                                       *)
(***************************************************************************)
Filters(input) == [k \in DOMAIN input \cap {"from", "since", "q"} |-> input[k]]

C14_TotalIndependent ==
    /\ \A r \in DoneListings :
          (OneSnapshot(r) /\ PlainQ(r.input))
          => r.response.body.total = Cardinality(Matching(TableRead(r), r.input))
    /\ \A r1, r2 \in DoneListings :
          (/\ OneSnapshot(r1) /\ r1.reads = r2.reads
           /\ Filters(r1.input) = Filters(r2.input))
          => r1.response.body.total = r2.response.body.total

(***************************************************************************)
(* C15: every page a listing returns is sorted ascending by ts, ties       *)
(* broken by ascending message_id: each entry is strictly below the next   *)
(* one in (ts, message_id), whatever the order the rows were inserted in.  *)
(***************************************************************************)
EntryLess(a, b) ==
    \/ LexLess(a.ts, b.ts)
    \/ a.ts = b.ts /\ LexLess(a.message_id, b.message_id)

C15_PageSorted ==
    \A r \in DoneListings :
        LET data == r.response.body.data IN
        \A i \in 1..(Len(data) - 1) : EntryLess(data[i], data[i + 1])

\* a page of three entries, two of them with the same ts, over a table whose
\* first inserted row comes last in the page
C15_Witness ==
    \E r \in DoneListings :
        LET data == r.response.body.data IN
        /\ OneSnapshot(r) /\ Len(data) = 3
        /\ data[1].ts = data[2].ts
        /\ data[3] = RowDict(TableRead(r)[1])

(***************************************************************************)
(* C16: stats over one table returns total_messages = the number of rows,  *)
(* senders_count = the number of distinct from_msisdn values,              *)
(* first_message_ts = the least ts and last_message_ts = the greatest ts;  *)
(* over the empty table it returns 0, 0, an empty messages_per_sender and  *)
(* null for both timestamps.                                               *)
(***************************************************************************)
C16_StatsOfTable ==
    \A r \in DoneStats :
        OneSnapshot(r) =>
        LET t == TableRead(r)
            b == r.response.body
            rows == 1..Len(t)
        IN /\ b.total_messages = Len(t)
           /\ b.senders_count = Cardinality({t[k].from_msisdn : k \in rows})
           /\ IF t = <<>>
              THEN /\ b.messages_per_sender = <<>>
                   /\ b.first_message_ts = None /\ b.last_message_ts = None
              ELSE /\ \E k \in rows : t[k].ts = b.first_message_ts
                   /\ \A k \in rows : LexLeq(b.first_message_ts, t[k].ts)
                   /\ \E k \in rows : t[k].ts = b.last_message_ts
                   /\ \A k \in rows : LexLeq(t[k].ts, b.last_message_ts)

\* stats over three rows of two senders, whose first inserted row does not
\* hold the least ts
C16_Witness ==
    \E r \in DoneStats :
        /\ OneSnapshot(r) /\ Len(TableRead(r)) = 3
        /\ r.response.body.senders_count = 2
        /\ r.response.body.first_message_ts # TableRead(r)[1].ts
        /\ r.response.body.first_message_ts # r.response.body.last_message_ts

(***************************************************************************)
(* C17: messages_per_sender of stats over one table has at most 10         *)
(* entries (all senders when there are at most 10), no sender twice, each  *)
(* count equal to the number of rows of that sender, counts in             *)
(* non-increasing order, and no sender left out has a strictly larger      *)
(* count than a sender in the list.                                        *)
(***************************************************************************)
C17_TopSenders ==
    \A r \in DoneStats :
        OneSnapshot(r) =>
        LET t == TableRead(r)
            top == r.response.body.messages_per_sender
            senders == {t[k].from_msisdn : k \in 1..Len(t)}
            rowsOf(s) == Cardinality({k \in 1..Len(t) : t[k].from_msisdn = s})
            listed == {top[i].from : i \in 1..Len(top)}
        IN /\ Len(top) <= 10
           /\ Len(top) = Min(10, Cardinality(senders))
           /\ \A i, j \in 1..Len(top) : i # j => top[i].from # top[j].from
           /\ \A i \in 1..Len(top) :
                 top[i].from \in senders /\ top[i].count = rowsOf(top[i].from)
           /\ \A i \in 1..(Len(top) - 1) : top[i].count >= top[i + 1].count
           /\ \A s \in senders \ listed : \A i \in 1..Len(top) : rowsOf(s) <= top[i].count

\* stats over a table of eleven senders: ten are listed, one is left out
C17_Witness ==
    \E r \in DoneStats :
        /\ OneSnapshot(r)
        /\ Cardinality({TableRead(r)[k].from_msisdn : k \in 1..Len(TableRead(r))}) = 11
        /\ Len(r.response.body.messages_per_sender) = 10
        /\ r.response.body.messages_per_sender[1].count > r.response.body.messages_per_sender[10].count

(***************************************************************************)
(* C18: the statistics a stats call returns, whatever inserts commit while *)
(* it runs, are those of one table: senders_count <= total_messages, the   *)
(* counts of messages_per_sender sum to at most total_messages (to exactly *)
(* total_messages when there are at most 10 senders), and some table the   *)
(* call read has total_messages rows whose least and greatest ts are       *)
(* first_message_ts and last_message_ts.                                   *)
(***************************************************************************)
C18_StatsSnapshot ==
    \A r \in DoneStats :
        LET b == r.response.body
            top == b.messages_per_sender
            counted == Sum([i \in 1..Len(top) |-> top[i].count], Len(top))
        IN /\ b.senders_count <= b.total_messages
           /\ counted <= b.total_messages
           /\ b.senders_count <= 10 => counted = b.total_messages
           /\ \E t \in r.reads :
                 /\ Len(t) = b.total_messages
                 /\ t # <<>> =>
                      /\ \E k \in 1..Len(t) : t[k].ts = b.first_message_ts
                      /\ \A k \in 1..Len(t) : LexLeq(b.first_message_ts, t[k].ts)
                      /\ \E k \in 1..Len(t) : t[k].ts = b.last_message_ts
                      /\ \A k \in 1..Len(t) : LexLeq(t[k].ts, b.last_message_ts)

(***************************************************************************)
(* C19: verify_signature returns a boolean for every webhook request that  *)
(* reaches it, and a request whose signature holds a non-ASCII character   *)
(* or that arrives while no secret is configured is answered 401 and       *)
(* classified invalid_signature.                                           *)
(***************************************************************************)
C19_VerifyNeverThrows ==
    \A i \in DoneWebhooks :
        LET r == history[i] IN
        /\ ~SigFalsy(r.input.sig)
           => verify_signature(settings.webhook_secret, r.input.body, r.input.sig)
                 \in {"True", "False"}
        /\ (r.input.sig.kind = "nonascii" \/ settings.webhook_secret = None)
           => r.response.status = 401 /\ r.result = "invalid_signature"

(***************************************************************************)
(* C20: every webhook request is classified created, duplicate,            *)
(* invalid_signature or validation_error; the webhook counter of each      *)
(* outcome equals the number of requests classified with it; the log holds *)
(* exactly one entry with a result for each request, tagged with its       *)
(* outcome, and for created and duplicate carrying the message id and a    *)
(* dup flag that is true iff the outcome is duplicate; no counter ever     *)
(* decreases.                                                              *)
(***************************************************************************)
Outcomes == {"created", "duplicate", "invalid_signature", "validation_error"}

\* the log entries with a result that carry the request's id
OutcomeEntries(r) ==
    {e \in BagToSet(log) : "result" \in DOMAIN e /\ e.request_id = r.state.request_id}

C20_Recorded ==
    /\ \A i \in DoneWebhooks :
          LET r == history[i] IN
          /\ r.result \in Outcomes
          /\ Cardinality(OutcomeEntries(r)) = 1
          /\ \A e \in OutcomeEntries(r) :
                /\ CopiesIn(e, log) = 1
                /\ e.result = r.result
                /\ r.result \in {"created", "duplicate"}
                   => /\ e.message_id = r.input.body.obj.message_id
                      /\ e.dup = (r.result = "duplicate")
    /\ BagToSet(webhook_requests_total) \subseteq Outcomes
    /\ \A o \in Outcomes :
          CopiesIn(o, webhook_requests_total) =
              Cardinality({r \in Requests : r.kind = "webhook" /\ r.result = o})

C20_CountersGrow ==
    /\ \A o \in BagToSet(webhook_requests_total) :
          CopiesIn(o, webhook_requests_total') >= CopiesIn(o, webhook_requests_total)
    /\ \A c \in BagToSet(http_requests_total) :
          CopiesIn(c, http_requests_total') >= CopiesIn(c, http_requests_total)

C20_OneCountOneLog == [](C20_Recorded) /\ [][C20_CountersGrow]_vars

(***************************************************************************)
(* C21: a readiness request is answered 200 exactly when the store health  *)
(* check succeeded and the configured secret is a non-empty string, and    *)
(* 503 otherwise; a store that fails during the health check makes the     *)
(* request end with 503, never with an exception; a liveness request is    *)
(* answered 200 whatever the store and the configuration are.              *)
(***************************************************************************)
\* the store did nothing to the health check of request r
StoreHealthy(r) == r.fault = "none"

SecretConfigured == settings.webhook_secret # None /\ settings.webhook_secret # <<>>

C21_ReadyIffHealthyAndSecret ==
    /\ \A r \in Done :
          r.kind = "health_ready"
          => /\ r.response.status \in {200, 503}
             /\ r.response.status = 200 <=> (StoreHealthy(r) /\ SecretConfigured)
    /\ \A r \in Done : r.kind = "health_live" => Ok200(r)
    /\ \A r \in Serving : r.kind \in {"health_ready", "health_live"} => r.pc # "raised"

\* a readiness request met a failing store and was answered 503
C21_Witness ==
    \E r \in Done :
        /\ r.kind = "health_ready" /\ ~StoreHealthy(r) /\ SecretConfigured
        /\ r.response.status = 503

(***************************************************************************)
(* C22: a process started outside test mode with no secret, or an empty    *)
(* one, aborts while loading and serves no request; no request is served   *)
(* before loading has succeeded; so every webhook request served outside   *)
(* test mode meets a configured secret that is a non-empty string.         *)
(***************************************************************************)
TestMode == process.env.TESTING

C22_NoSecretNoService ==
    /\ (~TestMode /\ ~SecretConfigured)
       => /\ process.phase \in {"loading", "aborted"}
          /\ Requests = {}
    /\ process.phase # "serving" => Requests = {}
    /\ \A r \in Requests :
          (r.kind = "webhook" /\ ~TestMode) => SecretConfigured

\* a process without a secret, outside test mode, has aborted
C22_Witness ==
    /\ ~TestMode /\ ~SecretConfigured
    /\ process.phase = "aborted"

(***************************************************************************)
(* C23: a call of Storage.insert_message returns True exactly when it      *)
(* added a row for the message; it returns False only when a row with that *)
(* message_id was already in the table, which it leaves as it was; a store *)
(* that refuses the connection or fails the INSERT makes the call raise,   *)
(* never return False, and leaves the table as it was.                     *)
(***************************************************************************)
\* table holds a row with this message_id
HasRow(table, message_id) == \E k \in 1..Len(table) : table[k].message_id = message_id

\* worker w's request calls insert_message in this step
InsertCall(w) ==
    /\ inflight[w] # Idle /\ inflight'[w] # Idle
    /\ inflight'[w].rid = inflight[w].rid
    /\ inflight'[w].insert_calls = inflight[w].insert_calls + 1

C23_InsertStep ==
    \A w \in Workers :
        InsertCall(w)
        => LET after == inflight'[w]
               id == after.local.message.message_id
               returned == "inserted" \in DOMAIN after.local
           IN /\ (returned /\ after.local.inserted)
                 <=> /\ Len(store') = Len(store) + 1
                     /\ SubSeq(store', 1, Len(store)) = store
                     /\ ~HasRow(store, id)
                     /\ store'[Len(store')].message_id = id
              /\ (returned /\ ~after.local.inserted)
                 => HasRow(store, id) /\ after.fault = "none"
              /\ ~(returned /\ after.local.inserted) => store' = store
              /\ after.fault # "none" => ~returned /\ after.pc = "raised"

C23_TrueIffCreated == [][C23_InsertStep]_vars

\* the store failed an INSERT and the request ended in the error
C23_Witness ==
    \E r \in Done :
        /\ r.kind = "webhook" /\ r.insert_calls = 1 /\ r.fault = "execute"
        /\ r.response.status = 500

\* insert_message returned False for a message whose id was stored
C23_WitnessDuplicate ==
    \E r \in Done :
        /\ HasInserted(r) /\ ~r.local.inserted /\ r.fault = "none"

(***************************************************************************)
(* C24: a listing over one table with limit l and offset o returns the     *)
(* rows at positions o+1 .. o+l of the rows matching its filters, ordered  *)
(* by (ts, message_id): min(l, total - o) of them and none when o is at    *)
(* least the total; two listings over the same table with the same filters *)
(* and limit whose offsets are at least the limit apart share no row; the  *)
(* response carries the limit and offset of the request. (Stated for       *)
(* filters that are not empty and a q without % and _.)                    *)
(***************************************************************************)
PlainFilters(input) ==
    /\ PlainQ(input)
    /\ "from" \in DOMAIN input => input.from # <<>>
    /\ "since" \in DOMAIN input => input.since # <<>>

\* the position of row k of the table among the rows matching the filters,
\* in the order of (ts, message_id)
Position(table, input, k) ==
    1 + Cardinality({j \in Matching(table, input) : EntryLess(table[j], table[k])})

\* the ids on the page of listing r
PageIds(r) ==
    {r.response.body.data[i].message_id : i \in 1..Len(r.response.body.data)}

OperationEnded(r) == r.pc \in {"record", "return", "raised", "done"}

C25_ConnectionsClosed ==
    \A r \in Requests : OperationEnded(r) => r.connections = 0

\* insert_message closes its connection also when the INSERT fails
C25_InsertCloses ==
    \A r \in Requests :
        (r.kind = "webhook" /\ OperationEnded(r)) => r.connections = 0

\* the operations that end with an open connection do so after a statement
\* of theirs failed
C25_OnlyOnFailure ==
    \A r \in Requests :
        (OperationEnded(r) /\ r.connections # 0)
        => r.fault = "execute" /\ r.kind \in {"messages", "stats", "health_ready"}

(***************************************************************************)
(* C26: for every request that was answered, whatever its path and status, *)
(* a status of 500 after an exception of the handler included, the log     *)
(* holds exactly one request record of logging_middleware with the         *)
(* request's method, path, status and a latency, and the general counter   *)
(* of each (path, status) equals the number of answered requests with that *)
(* path and status.                                                        *)
(***************************************************************************)
\* the records logging_middleware wrote for request r
RequestRecords(r) ==
    {e \in BagToSet(log) : "result" \notin DOMAIN e /\ e.request_id = r.logging_request_id}

Paths == {e.path : e \in Endpoints}

Statuses == {200, 401, 422, 500, 503}

C26_OneRequestRecord ==
    /\ \A r \in Done :
          /\ Cardinality(RequestRecords(r)) = 1
          /\ \A e \in RequestRecords(r) :
                /\ CopiesIn(e, log) = 1
                /\ e.method = r.method /\ e.path = r.path
                /\ e.status = r.response.status
                /\ "latency_ms" \in DOMAIN e
    /\ \A path \in Paths : \A status \in Statuses :
          CopiesIn(<<path, status>>, http_requests_total) =
              Cardinality({r \in Done : r.path = path /\ r.response.status = status})

\* the same, for the requests whose handler returned a response
C26_OneRecordWhenReturned ==
    /\ \A r \in Done :
          r.response.status # 500
          => /\ Cardinality(RequestRecords(r)) = 1
             /\ \A e \in RequestRecords(r) :
                   /\ CopiesIn(e, log) = 1
                   /\ e.method = r.method /\ e.path = r.path
                   /\ e.status = r.response.status
                   /\ "latency_ms" \in DOMAIN e
    /\ \A path \in Paths : \A status \in Statuses \ {500} :
          CopiesIn(<<path, status>>, http_requests_total) =
              Cardinality({r \in Done : r.path = path /\ r.response.status = status})

(***************************************************************************)
(* C27: in a service started on an empty table, whenever no webhook        *)
(* request is being served, the created counter equals the number of rows  *)
(* of the table and created + duplicate equals the number of webhook       *)
(* requests answered 200; while requests are being served, the created     *)
(* counter lags the table by exactly the requests that inserted their row  *)
(* and have not counted it yet.                                            *)
(***************************************************************************)
Created == CopiesIn("created", webhook_requests_total)

Duplicate == CopiesIn("duplicate", webhook_requests_total)

WebhooksServing == {r \in Serving : r.kind = "webhook"}

\* insert_message returned True to the request and the request has not
\* called record_webhook_request yet
InsertedUncounted == {r \in WebhooksServing : r.pc = "record" /\ r.local.inserted}

C27_CreatedCountsRows ==
    /\ WebhooksServing = {}
       => /\ Created = Len(store)
          /\ Created + Duplicate =
                Cardinality({r \in Done : r.kind = "webhook" /\ r.response.status = 200})
    /\ Created = Len(store) - Cardinality(InsertedUncounted)
    /\ Created + Duplicate =
          Cardinality({r \in Requests : /\ r.kind = "webhook"
                                        /\ r.response.status = 200})

\* two webhook requests were answered, one created a row and one met it
C27_Witness ==
    /\ WebhooksServing = {}
    /\ Created = 1 /\ Duplicate = 1 /\ Len(store) = 1

(***************************************************************************)
(* C28: for every answered request whose handler returned, the request     *)
(* record of logging_middleware, the outcome record of the webhook handler *)
(* (when there is one) and the X-Request-ID header of the response carry   *)
(* the same request id.                                                    *)
(***************************************************************************)
\* the requests whose response passed both middlewares
Returned == {r \in Done : r.response.status # 500}

XRequestId(r) == r.response.headers.X_Request_ID

C28_OneCorrelationId ==
    \A r \in Returned :
        /\ \A e \in OutcomeEntries(r) : e.request_id = XRequestId(r)
        /\ \E e \in BagToSet(log) :
              /\ "result" \notin DOMAIN e
              /\ e.request_id = XRequestId(r)
        /\ r.logging_request_id = r.state.request_id

\* the outcome record of the handler and the header agree
C28_HandlerMatchesHeader ==
    \A r \in Returned :
        /\ r.state.request_id = XRequestId(r)
        /\ \A e \in OutcomeEntries(r) : e.request_id = XRequestId(r)

====
